---------------------------- MODULE Spec2Model ----------------------------
(***************************************************************************)
(* A model of the envfile package (envfile.go): Load and Parse.            *)
(*                                                                         *)
(* Go strings are TLA+ strings; offsets are Go's 0-based byte offsets and  *)
(* Slice(s, a, b) is Go's s[a:b].  The file system and the process         *)
(* environment are the two external collaborators: fs maps a file name to  *)
(* the lines bufio.Scanner yields for it, environ maps the names that are  *)
(* set to their values.                                                    *)
(***************************************************************************)
EXTENDS Integers, Sequences, FiniteSets, TLC

VARIABLES
    fs,         \* file name -> sequence of lines (the files that exist)
    environ,    \* the process environment: name -> value, for the names set
    env0,       \* the environment when the call started (never changes)
    caller,     \* "Load" or "Parse": the public operation that was called
    filenames,  \* the argument list of the call
    idx,        \* Load: position of the range loop over the file list
    pc,         \* position in the code of Load / Parse
    payloads,   \* Parse: the payload list of the file being parsed
    temp,       \* Parse: key -> positions of its variables (this pass)
    pending,    \* Parse: keys of temp the range loop has not visited yet
    pass,       \* Parse: the number of passes of the loop of line 183 begun
    pidx,       \* Load: position of the range loop over the payloads
    err,        \* the error returned (Nil: none)
    opened,     \* history: the file names passed to os.Open, in order
    log         \* history: one record per payload Load has visited

vars == <<fs, environ, env0, caller, filenames, idx, pc, payloads, temp,
          pending, pass, pidx, err, opened, log>>

-----------------------------------------------------------------------------
(* strings *)

\* s[a:b] of Go, 0-based, b exclusive
Slice(s, a, b) == SubSeq(s, a + 1, b)

\* s[i] of Go as a one-character string
At(s, i) == SubSeq(s, i + 1, i + 1)

\* unicode.IsSpace on the characters that occur
WhiteSpace == {" ", "\t", "\n", "\r", "\f"}

RECURSIVE TrimLeft(_)
TrimLeft(s) ==
    IF Len(s) > 0 /\ At(s, 0) \in WhiteSpace
    THEN TrimLeft(Slice(s, 1, Len(s)))
    ELSE s

RECURSIVE TrimRight(_)
TrimRight(s) ==
    IF Len(s) > 0 /\ At(s, Len(s) - 1) \in WhiteSpace
    THEN TrimRight(Slice(s, 0, Len(s) - 1))
    ELSE s

\* strings.TrimSpace
TrimSpace(s) == TrimRight(TrimLeft(s))

\* strings.HasPrefix
HasPrefix(s, prefix) ==
    Len(s) >= Len(prefix) /\ Slice(s, 0, Len(prefix)) = prefix

Upper == <<"A", "B", "C", "D", "E", "F", "G", "H", "I", "J", "K", "L", "M",
           "N", "O", "P", "Q", "R", "S", "T", "U", "V", "W", "X", "Y", "Z">>
Lower == <<"a", "b", "c", "d", "e", "f", "g", "h", "i", "j", "k", "l", "m",
           "n", "o", "p", "q", "r", "s", "t", "u", "v", "w", "x", "y", "z">>
Digits == {"0", "1", "2", "3", "4", "5", "6", "7", "8", "9"}

LowerChar(c) ==
    IF \E i \in 1..Len(Upper) : Upper[i] = c
    THEN Lower[CHOOSE i \in 1..Len(Upper) : Upper[i] = c]
    ELSE c

\* strings.ToLower
RECURSIVE ToLower(_)
ToLower(s) ==
    IF Len(s) = 0 THEN ""
    ELSE LowerChar(At(s, 0)) \o ToLower(Slice(s, 1, Len(s)))

\* the 0-based offset of the first sub in s at or after from; Len(s) when
\* there is none (strings.Index gives -1 there: callers ask Contains first)
RECURSIVE IndexFrom(_, _, _)
IndexFrom(s, sub, from) ==
    IF from + Len(sub) > Len(s) THEN Len(s)
    ELSE IF Slice(s, from, from + Len(sub)) = sub THEN from
    ELSE IndexFrom(s, sub, from + 1)

Contains(s, sub) == IndexFrom(s, sub, 0) + Len(sub) <= Len(s)

\* strings.SplitN(s, sep, 2)
SplitN2(s, sep) ==
    IF Contains(s, sep)
    THEN LET i == IndexFrom(s, sep, 0)
         IN  <<Slice(s, 0, i), Slice(s, i + Len(sep), Len(s))>>
    ELSE <<s>>

\* strings.Count(s, c) for a one-character c
RECURSIVE Count(_, _)
Count(s, c) ==
    IF Len(s) = 0 THEN 0
    ELSE (IF At(s, 0) = c THEN 1 ELSE 0) + Count(Slice(s, 1, Len(s)), c)

\* strings.ReplaceAll(s, old, new): non-overlapping, left to right
RECURSIVE ReplaceAll(_, _, _)
ReplaceAll(s, old, new) ==
    IF ~Contains(s, old) THEN s
    ELSE LET i == IndexFrom(s, old, 0)
         IN  Slice(s, 0, i) \o new
                 \o ReplaceAll(Slice(s, i + Len(old), Len(s)), old, new)

\* the regular expression validation = ^[A-Za-z0-9_]+$
KeyChars ==
    {Upper[i] : i \in 1..Len(Upper)} \cup {Lower[i] : i \in 1..Len(Lower)}
        \cup Digits \cup {"_"}

ValidationMatch(s) ==
    Len(s) > 0 /\ \A i \in 0..(Len(s) - 1) : At(s, i) \in KeyChars


-----------------------------------------------------------------------------
(* errors and payloads *)

Nil == [file |-> "", line |-> 0, msg |-> ""]

Error(filename, line, msg) == [file |-> filename, line |-> line, msg |-> msg]

ErrOpen == "open"
ErrSplit == "can't split line into key and value"
ErrEmptyKey == "key name is empty"
ErrInvalidKey == "invalid key name"
ErrDuplicate == "duplicate key"
ErrExcessOpeningEnd == "excess opening curly brace '{' in at the end"
ErrNoClosing == "can't find the closing curly brace '}'"
ErrExcessClosing == "excess closing curly brace '}'"
ErrExcessOpening == "excess opening curly brace '{'"
ErrExcessClosingBegin == "excess closing curly brace '}' at the beginning"
ErrNoOpening == "can't find the opening curly brace '{'"
ErrEmptyVariable == "variable name is empty"
ErrRecursive == "key is used recursively"
ErrNotExist == "variable does not exist"

Payload(line, export, overload, key, value) ==
    [Line |-> line, Export |-> export, Overload |-> overload,
     Key |-> key, Value |-> value]

\* the position in payloads of the payload with this key, 0 when there is none
KeyIndex(ps, key) ==
    IF \E i \in 1..Len(ps) : ps[i].Key = key
    THEN CHOOSE i \in 1..Len(ps) : ps[i].Key = key /\
                                   \A j \in 1..(i - 1) : ps[j].Key # key
    ELSE 0

-----------------------------------------------------------------------------
(* Parse, lines 106-180: the line loop *)

\* lines 133-154: the key and the directives of the text left of "="
KeySpec(text) ==
    LET key0 == TrimSpace(text)
        export == HasPrefix(ToLower(key0), "export")
        key1 == IF export THEN TrimSpace(Slice(key0, 6, Len(key0))) ELSE key0
        overload == HasPrefix(ToLower(key1), "overload")
        key2 == IF overload THEN TrimSpace(Slice(key1, 8, Len(key1))) ELSE key1
    IN  [Key |-> key2, Export |-> export, Overload |-> overload]

RECURSIVE ScanLines(_, _, _, _)
ScanLines(filename, lines, line, ps) ==
    IF line > Len(lines) THEN [payloads |-> ps, err |-> Nil]
    ELSE
    LET current == TrimSpace(lines[line])
        pair == SplitN2(current, "=")
        spec == KeySpec(pair[1])
    IN  IF Len(current) = 0 \/ HasPrefix(current, "#")
        THEN ScanLines(filename, lines, line + 1, ps)
        ELSE IF Len(pair) # 2
        THEN [payloads |-> <<>>, err |-> Error(filename, line, ErrSplit)]
        ELSE IF Len(spec.Key) = 0
        THEN [payloads |-> <<>>, err |-> Error(filename, line, ErrEmptyKey)]
        ELSE IF ~ValidationMatch(spec.Key)
        THEN [payloads |-> <<>>, err |-> Error(filename, line, ErrInvalidKey)]
        ELSE IF KeyIndex(ps, spec.Key) # 0
        THEN [payloads |-> <<>>, err |-> Error(filename, line, ErrDuplicate)]
        ELSE ScanLines(filename, lines, line + 1,
                       Append(ps, Payload(line, spec.Export, spec.Overload,
                                          spec.Key, TrimSpace(pair[2]))))

-----------------------------------------------------------------------------
(* Parse, lines 189-344: the brace tokenizer *)

\* lines 191-243: the parts of a value
RECURSIVE SplitLoop(_, _, _, _, _)
SplitLoop(value, i, previous, parts, chars) ==
    IF i >= Len(value)
    THEN IF Len(chars) > 0 THEN Append(parts, chars) ELSE parts
    ELSE
    LET current == At(value, i)
        flush1 == previous # "{" /\ current = "{" /\ Len(chars) > 0
        parts1 == IF flush1 THEN Append(parts, chars) ELSE parts
        chars1 == IF flush1 THEN "" ELSE chars
        flush2 == previous = "}" /\ current # "}" /\ Len(chars1) > 0
        parts2 == IF flush2 THEN Append(parts1, chars1) ELSE parts1
        chars2 == IF flush2 THEN "" ELSE chars1
    IN  SplitLoop(value, i + 1, current, parts2, chars2 \o current)

Parts(value) == SplitLoop(value, 0, "", <<>>, "")

\* faulty variant: the check of lines 324-328 left out
IsRecursiveNever(payload, variable) == FALSE

\* faulty variant: the check of lines 324-328 made in the first pass only
IsRecursiveFirstPass(payload, variable) == payload.Key = variable /\ pass = 0

\* lines 324-328: the variable names the key of its own payload
IsRecursive(payload, variable) == payload.Key = variable

\* lines 249-343: the positions of the variables of one payload, or an error
RECURSIVE ScanParts(_, _, _, _, _, _)
ScanParts(filename, payload, parts, i, offset, positions) ==
    IF i >= Len(parts) THEN [positions |-> positions, err |-> Nil]
    ELSE
    LET part == parts[i + 1]
        opening == Count(part, "{")
        closing == Count(part, "}")
        evenOpening == (opening % 2) = 0
        evenClosing == (closing % 2) = 0
        start == offset + opening
        end == offset + (Len(part) - closing)
        variable == TrimSpace(Slice(payload.Value, start, end))
        Fail(msg) == [positions |-> <<>>,
                      err |-> Error(filename, payload.Line, msg)]
    IN  IF ~evenOpening /\ evenClosing /\ opening > closing
        THEN IF i = Len(parts) - 1 /\ part = "{"
             THEN Fail(ErrExcessOpeningEnd)
             ELSE Fail(ErrNoClosing)
        ELSE IF ~evenOpening /\ evenClosing /\ opening < closing
        THEN Fail(ErrExcessClosing)
        ELSE IF evenOpening /\ ~evenClosing /\ opening > closing
        THEN Fail(ErrExcessOpening)
        ELSE IF evenOpening /\ ~evenClosing /\ opening < closing
        THEN IF i = 0 /\ part = "}"
             THEN Fail(ErrExcessClosingBegin)
             ELSE Fail(ErrNoOpening)
        ELSE IF ~evenOpening /\ ~evenClosing
        THEN IF Len(variable) = 0 THEN Fail(ErrEmptyVariable)
             ELSE IF IsRecursive(payload, variable) THEN Fail(ErrRecursive)
             ELSE ScanParts(filename, payload, parts, i + 1,
                            offset + Len(part),
                            Append(positions, <<start, end>>))
        ELSE ScanParts(filename, payload, parts, i + 1, offset + Len(part),
                       positions)

Positions(filename, payload) ==
    ScanParts(filename, payload, Parts(payload.Value), 0, 0, <<>>)

\* lines 186-344: one pass of the tokenizer over all payloads, in order
RECURSIVE ScanPayloads(_, _, _, _)
ScanPayloads(filename, ps, i, tmp) ==
    IF i > Len(ps) THEN [temp |-> tmp, err |-> Nil]
    ELSE
    LET r == Positions(filename, ps[i])
    IN  IF r.err # Nil THEN [temp |-> <<>>, err |-> r.err]
        ELSE IF Len(r.positions) = 0
        THEN ScanPayloads(filename, ps, i + 1, tmp)
        ELSE ScanPayloads(filename, ps, i + 1,
                          [k \in DOMAIN tmp \cup {ps[i].Key} |->
                              IF k = ps[i].Key THEN r.positions ELSE tmp[k]])

-----------------------------------------------------------------------------
(* Parse, lines 350-431: the substitution of one key's variables *)

\* os.LookupEnv
LookupEnv(env, name) ==
    IF name \in DOMAIN env THEN [value |-> env[name], ok |-> TRUE]
    ELSE [value |-> "", ok |-> FALSE]

\* faulty variant: the environment asked before the payloads
VariableValueEnvFirst(ps, env, variable) ==
    IF variable \in DOMAIN env THEN [value |-> env[variable], ok |-> TRUE]
    ELSE IF KeyIndex(ps, variable) # 0
    THEN [value |-> ps[KeyIndex(ps, variable)].Value, ok |-> TRUE]
    ELSE [value |-> "", ok |-> FALSE]

\* lines 383-418: the value of a variable: a payload's, else the environment's
VariableValue(ps, env, variable) ==
    IF KeyIndex(ps, variable) # 0
    THEN [value |-> ps[KeyIndex(ps, variable)].Value, ok |-> TRUE]
    ELSE LookupEnv(env, variable)

\* faulty variant: the braces around the variable kept (start - 1 and end + 1 lost)
SpliceKeepBraces(value, start, end, replacement) ==
    Slice(value, 0, start) \o replacement \o Slice(value, end, Len(value))

\* lines 379-424: everything before the variable, its value, everything after
Splice(value, start, end, replacement) ==
    Slice(value, 0, start - 1) \o replacement
        \o Slice(value, end + 1, Len(value))

\* lines 362-425: the positions of one payload, last first
RECURSIVE ReplaceLoop(_, _, _, _, _, _)
ReplaceLoop(filename, ps, env, payload, positions, i) ==
    IF i < 1 THEN [payload |-> payload, err |-> Nil]
    ELSE
    LET start == positions[i][1]
        end == positions[i][2]
        variable == TrimSpace(Slice(payload.Value, start, end))
        found == VariableValue(ps, env, variable)
    IN  IF ~found.ok
        THEN [payload |-> payload,
              err |-> Error(filename, payload.Line, ErrNotExist)]
        ELSE ReplaceLoop(filename, ps, env,
                         [payload EXCEPT
                             !.Value = Splice(@, start, end, found.value)],
                         positions, i - 1)

-----------------------------------------------------------------------------
(* Parse, lines 441-474: unescaping *)

\* faulty variant: the backslash of a pair that is no escape left out
UnescapeMatchDropsBackslash(match) ==
    LET rest == IF HasPrefix(match, "\\") THEN Slice(match, 1, Len(match))
                ELSE match
    IN  IF rest = "n" THEN "\n"
        ELSE IF rest = "t" THEN "\t"
        ELSE rest

\* lines 450-470: the replacement of one match
UnescapeMatch(match) ==
    LET rest == IF HasPrefix(match, "\\") THEN Slice(match, 1, Len(match))
                ELSE match
    IN  IF rest = "n" THEN "\n"
        ELSE IF rest = "t" THEN "\t"
        ELSE IF rest = "\\" THEN "\\"
        ELSE match

\* faulty variant: the matches taken at every backslash, overlapping the one before
RECURSIVE UnescapeSpecialOverlapping(_)
UnescapeSpecialOverlapping(s) ==
    IF Len(s) = 0 THEN ""
    ELSE IF Len(s) >= 2 /\ At(s, 0) = "\\" /\ At(s, 1) # "\n"
    THEN UnescapeMatch(Slice(s, 0, 2))
             \o UnescapeSpecialOverlapping(
                    (IF At(s, 1) = "\\" THEN "\\" ELSE "")
                        \o Slice(s, 2, Len(s)))
    ELSE At(s, 0) \o UnescapeSpecialOverlapping(Slice(s, 1, Len(s)))

\* unescape.ReplaceAllStringFunc: the matches of \\. (a backslash and any
\* character but a line feed), leftmost first, not overlapping
RECURSIVE UnescapeSpecial(_)
UnescapeSpecial(s) ==
    IF Len(s) = 0 THEN ""
    ELSE IF Len(s) >= 2 /\ At(s, 0) = "\\" /\ At(s, 1) # "\n"
    THEN UnescapeMatch(Slice(s, 0, 2)) \o UnescapeSpecial(Slice(s, 2, Len(s)))
    ELSE At(s, 0) \o UnescapeSpecial(Slice(s, 1, Len(s)))

\* lines 443-470
UnescapeValue(value) ==
    UnescapeSpecial(ReplaceAll(ReplaceAll(value, "{{", "{"), "}}", "}"))

-----------------------------------------------------------------------------
(* Load and Parse as a state machine *)

DefaultFile == ".envfile"

\* lines 43-47: the default file name when the list is empty
FileList == IF Len(filenames) = 0 THEN <<DefaultFile>> ELSE filenames

\* the file name of the current iteration of the range loop of Load (the
\* argument of Parse)
Filename == FileList[idx]

\* syscall.Setenv's refusal of a name that is empty or holds "=" (the NUL
\* byte it also refuses is not among the characters of the model)
SetenvFails(key, value) == Len(key) = 0 \/ Contains(key, "=")

\* faulty variant: overload treated as export (the "|| payload.Overload" of line 65
\* lost)
ShouldSetNoOverload(payload, found) ==
    /\ payload.Export \/ payload.Overload
    /\ ~found.ok
    /\ payload.Value # found.value

\* lines 62-70: whether Load writes the payload, given what LookupEnv gave
ShouldSet(payload, found) ==
    /\ payload.Export \/ payload.Overload
    /\ ~found.ok \/ payload.Overload
    /\ payload.Value # found.value

\* os.Setenv
Setenv(env, key, value) ==
    [n \in DOMAIN env \cup {key} |-> IF n = key THEN value ELSE env[n]]

\* lines 50-56 and 81: the range loop over the file names
LoadRange ==
    /\ caller = "Load"
    /\ pc = "range"
    /\ pc' = IF idx > Len(FileList) THEN "done" ELSE "open"
    /\ UNCHANGED <<fs, environ, env0, caller, filenames, idx, payloads, temp,
                   pending, pass, pidx, err, opened, log>>

\* lines 88-180: os.Open and the line loop
ParseOpen ==
    /\ pc = "open"
    /\ opened' = Append(opened, Filename)
    /\ LET r == IF Filename \in DOMAIN fs
                THEN ScanLines(Filename, fs[Filename], 1, <<>>)
                ELSE [payloads |-> <<>>, err |-> Error(Filename, 0, ErrOpen)]
       IN  /\ payloads' = r.payloads
           /\ err' = r.err
           /\ pc' = IF r.err # Nil THEN "return" ELSE "tokenize"
    /\ pass' = 0
    /\ UNCHANGED <<fs, environ, env0, caller, filenames, idx, temp, pending,
                   pidx, log>>

\* lines 183-347 and 433-437: one pass of the tokenizer; the loop ends when
\* the pass finds no variable
Tokenize ==
    /\ pc = "tokenize"
    /\ LET r == ScanPayloads(Filename, payloads, 1, <<>>)
       IN  /\ err' = r.err
           /\ temp' = r.temp
           /\ pending' = DOMAIN r.temp
           /\ payloads' = IF r.err # Nil THEN <<>> ELSE payloads
           /\ pc' = IF r.err # Nil THEN "return"
                    ELSE IF DOMAIN r.temp = {} THEN "unescape"
                    ELSE "substitute"
    /\ pass' = pass + 1
    /\ UNCHANGED <<fs, environ, env0, caller, filenames, idx, pidx, opened,
                   log>>

\* lines 350-431: one iteration of the range loop over temp (a Go map: the
\* keys come in any order)
Substitute(variable) ==
    /\ pc = "substitute"
    /\ variable \in pending
    /\ LET i == KeyIndex(payloads, variable)
           r == ReplaceLoop(Filename, payloads, environ, payloads[i],
                            temp[variable], Len(temp[variable]))
       IN  /\ err' = r.err
           /\ payloads' = IF r.err # Nil THEN <<>>
                          ELSE [payloads EXCEPT ![i] = r.payload]
           /\ pending' = IF r.err # Nil THEN {} ELSE pending \ {variable}
           /\ pc' = IF r.err # Nil THEN "return"
                    ELSE IF pending \ {variable} = {} THEN "tokenize"
                    ELSE "substitute"
    /\ temp' = IF pc' = "substitute" THEN temp ELSE <<>>
    /\ UNCHANGED <<fs, environ, env0, caller, filenames, idx, pass, pidx,
                   opened, log>>

\* lines 441-476: unescaping
Unescape ==
    /\ pc = "unescape"
    /\ payloads' = [i \in 1..Len(payloads) |->
                       [payloads[i] EXCEPT !.Value = UnescapeValue(@)]]
    /\ pc' = "return"
    /\ UNCHANGED <<fs, environ, env0, caller, filenames, idx, temp, pending,
                   pass, pidx, err, opened, log>>

\* faulty variant: the error of Parse dropped, Load goes on
StopOnErrorNever(e) == FALSE

\* lines 54-56: Load returns the error of Parse
StopOnError(e) == e # Nil

\* the return of Parse: to its caller when that is the call itself, else to
\* line 53 of Load
ParseReturn ==
    /\ pc = "return"
    /\ pc' = IF caller = "Parse" \/ StopOnError(err) THEN "done" ELSE "apply"
    /\ pidx' = 1
    /\ UNCHANGED <<fs, environ, env0, caller, filenames, idx, payloads, temp,
                   pending, pass, err, opened, log>>

\* lines 59-78: one iteration of the range loop over the payloads, or its end
LoadApply ==
    /\ pc = "apply"
    /\ IF pidx > Len(payloads)
       THEN /\ idx' = idx + 1
            /\ pc' = "range"
            /\ payloads' = <<>>
            /\ UNCHANGED <<environ, pidx, err, log>>
       ELSE LET payload == payloads[pidx]
                found == LookupEnv(environ, payload.Key)
                set == ShouldSet(payload, found)
                failed == set /\ SetenvFails(payload.Key, payload.Value)
            IN  /\ environ' = IF set /\ ~failed
                              THEN Setenv(environ, payload.Key, payload.Value)
                              ELSE environ
                /\ err' = IF failed THEN Error(Filename, 0, "setenv") ELSE Nil
                /\ pc' = IF failed THEN "done" ELSE "apply"
                /\ pidx' = pidx + 1
                /\ log' = Append(log, [file |-> idx, payload |-> payload,
                                       before |-> environ,
                                       after |-> environ'])
                /\ UNCHANGED <<idx, payloads>>
    /\ UNCHANGED <<fs, env0, caller, filenames, temp, pending, pass, opened>>

NextParse ==
    \/ ParseOpen
    \/ Tokenize
    \/ \E variable \in pending : Substitute(variable)
    \/ Unescape
    \/ ParseReturn

NextLoad ==
    \/ LoadRange
    \/ ParseOpen
    \/ Tokenize
    \/ \E variable \in pending : Substitute(variable)
    \/ Unescape
    \/ ParseReturn
    \/ LoadApply

\* the state when Parse(filename) is called with the files files and the
\* environment env
ParseCall(files, env, filename) ==
    /\ fs = files
    /\ environ = env
    /\ env0 = env
    /\ caller = "Parse"
    /\ filenames = <<filename>>
    /\ idx = 1
    /\ pc = "open"
    /\ payloads = <<>>
    /\ temp = <<>>
    /\ pending = {}
    /\ pass = 0
    /\ pidx = 1
    /\ err = Nil
    /\ opened = <<>>
    /\ log = <<>>

\* the state when Load(names...) is called
LoadCall(files, env, names) ==
    /\ fs = files
    /\ environ = env
    /\ env0 = env
    /\ caller = "Load"
    /\ filenames = names
    /\ idx = 1
    /\ pc = "range"
    /\ payloads = <<>>
    /\ temp = <<>>
    /\ pending = {}
    /\ pass = 0
    /\ pidx = 1
    /\ err = Nil
    /\ opened = <<>>
    /\ log = <<>>

-----------------------------------------------------------------------------
(* Parse of one file of up to MaxEntries entries *)

MaxEntries == 3

Keys == <<"A", "B", "C", "D">>

\* the values an entry is given: literals, references to the entries before
\* and after it, to the environment (E, S), to nothing (D unless it is an
\* entry), several references in one value, escaped and unbalanced braces
Values ==
    {"foo", "{ A }bar", "{ B }baz", "{C}", "{ D }", "{ A }:{ B }",
     "{ E }/x", "{ S }", "{{{ C }}}", "{{B}}", "x{"}

\* E is set in the environment only, A there and (shadowed) in every file,
\* S holds a reference of its own
ResolveEnv ==
    [n \in {"A", "E", "S"} |->
        IF n = "A" THEN "ambient" ELSE IF n = "E" THEN "env" ELSE "{ A }"]

EntryLine(key, value) == key \o " = " \o value

Init ==
    \E n \in 1..MaxEntries :
        \E vs \in [1..n -> Values] :
            ParseCall([f \in {"t.env"} |->
                          [i \in 1..n |-> EntryLine(Keys[i], vs[i])]],
                      ResolveEnv, "t.env")

Spec == Init /\ [][NextParse]_vars

-----------------------------------------------------------------------------
(* what the values of a file mean, read off the file format: in a value    *)
(* read left to right, "{{" and "}}" are literal braces, a single "{"      *)
(* opens a reference and the next "}" closes it                            *)

\* the payloads of the file as the line loop leaves them, before resolution
Raw ==
    IF Filename \in DOMAIN fs
    THEN ScanLines(Filename, fs[Filename], 1, <<>>).payloads
    ELSE <<>>

\* the text a name stands for: the value of the entry of that key, else the
\* value of the environment variable
Known(ps, env, name) == KeyIndex(ps, name) # 0 \/ name \in DOMAIN env

TextOf(ps, env, name) ==
    IF KeyIndex(ps, name) # 0 THEN ps[KeyIndex(ps, name)].Value ELSE env[name]

Failed == [ok |-> FALSE, value |-> ""]

Then(text, r) == IF r.ok THEN [ok |-> TRUE, value |-> text \o r.value] ELSE r

\* the full recursive expansion of the text s; visiting holds the names
\* whose expansion this one is part of
RECURSIVE Expand(_, _, _, _)
Expand(s, ps, env, visiting) ==
    IF Len(s) = 0 THEN [ok |-> TRUE, value |-> ""]
    ELSE IF HasPrefix(s, "{{") \/ HasPrefix(s, "}}")
    THEN Then(Slice(s, 0, 2), Expand(Slice(s, 2, Len(s)), ps, env, visiting))
    ELSE IF At(s, 0) = "}" THEN Failed
    ELSE IF At(s, 0) = "{"
    THEN LET close == IndexFrom(s, "}", 1)
             inner == Slice(s, 1, close)
             name == TrimSpace(inner)
         IN  IF \/ close >= Len(s)
                \/ Contains(inner, "{")
                \/ name = ""
                \/ name \in visiting
                \/ ~Known(ps, env, name)
             THEN Failed
             ELSE LET r == Expand(TextOf(ps, env, name), ps, env,
                                  visiting \cup {name})
                  IN  IF r.ok
                      THEN Then(r.value, Expand(Slice(s, close + 1, Len(s)),
                                                ps, env, visiting))
                      ELSE Failed
    ELSE Then(At(s, 0), Expand(Slice(s, 1, Len(s)), ps, env, visiting))

\* the expansions of the entries of the file
Expansions ==
    LET ps == Raw
    IN  [i \in 1..Len(ps) |-> Expand(ps[i].Value, ps, env0, {ps[i].Key})]

\* every entry of the file has an expansion: its references are well formed,
\* name entries or environment variables, and form no cycle
Resolvable ==
    LET ex == Expansions IN \A i \in DOMAIN ex : ex[i].ok

\* the names a well-formed text refers to directly
RECURSIVE Names(_)
Names(s) ==
    IF Len(s) = 0 THEN {}
    ELSE IF HasPrefix(s, "{{") \/ HasPrefix(s, "}}")
    THEN Names(Slice(s, 2, Len(s)))
    ELSE IF At(s, 0) = "{" /\ Contains(s, "}")
    THEN {TrimSpace(Slice(s, 1, IndexFrom(s, "}", 1)))}
             \cup Names(Slice(s, IndexFrom(s, "}", 1) + 1, Len(s)))
    ELSE Names(Slice(s, 1, Len(s)))

\* the text is well formed when read as above, whatever its names stand for
WellFormed(s) ==
    Expand(s, <<>>, [n \in Names(s) |-> ""], {}).ok

-----------------------------------------------------------------------------
(* the resolver: claims C3, C4, C5, C10 (specification Spec) *)

\* a value with each reference replaced, left to right, by the text its
\* name stands for (one level: the text put in is not read again)
RECURSIVE Substituted(_, _, _)
Substituted(s, ps, env) ==
    IF Len(s) = 0 THEN ""
    ELSE IF HasPrefix(s, "{{") \/ HasPrefix(s, "}}")
    THEN Slice(s, 0, 2) \o Substituted(Slice(s, 2, Len(s)), ps, env)
    ELSE IF At(s, 0) = "{"
    THEN LET close == IndexFrom(s, "}", 1)
         IN  TextOf(ps, env, TrimSpace(Slice(s, 1, close)))
                 \o Substituted(Slice(s, close + 1, Len(s)), ps, env)
    ELSE At(s, 0) \o Substituted(Slice(s, 1, Len(s)), ps, env)

\* C3: when the resolver visits an entry, each reference of its value is
\* replaced by the current value of the entry of that name if there is one
\* (also when the environment holds the name), else by the value of the
\* environment variable; if a name is neither, Parse returns the error
\* "variable does not exist" for the line of the entry, and no payloads.
C3_ReferenceLookup ==
    [][pc = "substitute" =>
        \E k \in pending :
            LET i == KeyIndex(payloads, k)
                v == payloads[i].Value
            IN  IF \E n \in Names(v) : ~Known(payloads, environ, n)
                THEN /\ pc' = "return"
                     /\ err' = Error(Filename, payloads[i].Line, ErrNotExist)
                     /\ payloads' = <<>>
                ELSE /\ err' = Nil
                     /\ pending' = pending \ {k}
                     /\ payloads' =
                            [payloads EXCEPT
                                ![i].Value = Substituted(v, payloads, environ)]
      ]_vars

\* witness of C3: B = { A }bar was resolved from the entry A = foo although
\* the environment holds A = ambient
C3_Witness ==
    /\ pc = "done"
    /\ err = Nil
    /\ env0["A"] = "ambient"
    /\ fs[Filename] = <<"A = foo", "B = { A }bar">>
    /\ payloads[2].Value = "foobar"

\* the passes a resolvable file can need: one per name of a chain (a line
\* of the file or a variable of the environment), and the last one, which
\* finds no reference
PassLimit == Len(fs[Filename]) + Cardinality(DOMAIN env0) + 1

\* C4: when every entry has an expansion (the references are well formed,
\* known and acyclic), Parse raises no error, leaves the loop within
\* PassLimit passes with every value equal to its full recursive expansion,
\* and returns the unescaped expansions - in every order of the map range.
C4_ChainedInterpolation ==
    \/ /\ err = Nil
       /\ pass <= PassLimit
       /\ pc = "unescape" =>
              LET ex == Expansions
              IN  \A i \in DOMAIN ex :
                      ex[i].ok => payloads[i].Value = ex[i].value
       /\ pc \in {"return", "done"} =>
              LET ex == Expansions
              IN  \A i \in DOMAIN ex :
                      ex[i].ok =>
                          payloads[i].Value = UnescapeValue(ex[i].value)
    \/ ~Resolvable

\* witness of C4: the chain A = foo, B = { A }bar, C = { B }baz resolved
C4_Witness ==
    /\ pc = "done"
    /\ err = Nil
    /\ fs[Filename] = <<"A = foo", "B = { A }bar", "C = { B }baz">>
    /\ [i \in 1..3 |-> payloads[i].Value] = <<"foo", "foobar", "foobarbaz">>

\* the number of consecutive characters c of s that end at offset i
RECURSIVE RunLeft(_, _, _)
RunLeft(s, c, i) ==
    IF i >= 0 /\ At(s, i) = c THEN 1 + RunLeft(s, c, i - 1) ELSE 0

\* the number of consecutive characters c of s that start at offset i
RECURSIVE RunRight(_, _, _)
RunRight(s, c, i) ==
    IF i < Len(s) /\ At(s, i) = c THEN 1 + RunRight(s, c, i + 1) ELSE 0

\* the value of the payload holds a well-formed reference to its own key:
\* the name between an odd run of "{" and an odd run of "}"
SelfReference(payload) ==
    LET v == payload.Value
    IN  \E i \in 0..(Len(v) - 1) :
            /\ At(v, i) = "{"
            /\ LET j == IndexFrom(v, "}", i + 1)
               IN  /\ j < Len(v)
                   /\ TrimSpace(Slice(v, i + 1, j)) = payload.Key
                   /\ RunLeft(v, "{", i) % 2 = 1
                   /\ RunRight(v, "}", j) % 2 = 1

BraceErrors ==
    {ErrExcessOpeningEnd, ErrNoClosing, ErrExcessClosing, ErrExcessOpening,
     ErrExcessClosingBegin, ErrNoOpening, ErrEmptyVariable, ErrRecursive}

RECURSIVE Reaches(_, _, _)
Reaches(ps, names, n) ==
    IF n = 0 THEN names
    ELSE Reaches(ps,
                 names \cup
                 UNION {Names(ps[KeyIndex(ps, m)].Value) :
                           m \in {x \in names : KeyIndex(ps, x) # 0}},
                 n - 1)

\* two or more entries of the file reference each other in a cycle, no
\* entry names its own key, and every value is well formed and names
\* entries or environment variables only
CyclicFile ==
    LET ps == Raw
    IN  /\ \E i \in 1..Len(ps) :
               ps[i].Key \in Reaches(ps, Names(ps[i].Value), Len(ps))
        /\ \A i \in 1..Len(ps) :
               /\ ps[i].Key \notin Names(ps[i].Value)
               /\ \A n \in Names(ps[i].Value) : Known(ps, env0, n)
               /\ WellFormed(ps[i].Value)

\* C10 as stated: with a cycle of two or more entries Parse never returns
C10_NeverReturns == pc \notin {"return", "done"} \/ ~CyclicFile

\* C10, amended: with a cycle of two or more entries the loop of Parse does
\* not run on: each pass shortens the cycle, within as many passes as there
\* are lines an entry holds a reference to its own key, and Parse returns
\* the error "key is used recursively" and no payloads.
C10_CycleEndsInError ==
    \/ /\ pass <= Len(fs[Filename])
       /\ pc # "unescape"
       /\ pc \in {"return", "done"} =>
              (err.msg = ErrRecursive /\ payloads = <<>>)
    \/ ~CyclicFile

\* witness of C10: A = { B }.., B = { A }.. returned "used recursively"
C10_Witness ==
    /\ pc = "done"
    /\ CyclicFile
    /\ fs[Filename] = <<"A = { B }baz", "B = { A }bar">>
    /\ err.msg = ErrRecursive
    /\ pass = 2

-----------------------------------------------------------------------------
(* Load of up to MaxFiles files: claims C1, C2, C6 (specification SpecLoad) *)

MaxFiles == 2

Directives == {"", "export ", "overload ", "export overload "}

\* the files of one line: every directive on the key P with every value
OneLiners == {<<d, v>> : d \in Directives, v \in {"1", "2", ""}}

OneLinerName(t) ==
    (IF t[1] = "" THEN "plain " ELSE t[1]) \o "P " \o t[2] \o ".env"

\* the files that exist: the one-liners, and files of two entries that
\* reference each other, read the environment, or fail to parse; there is
\* no file missing.env and no file .envfile
LoadFiles ==
    [n \in {OneLinerName(t) : t \in OneLiners} |->
        LET t == CHOOSE t \in OneLiners : OneLinerName(t) = n
        IN  <<t[1] \o "P = " \o t[2]>>]
    @@ [n \in {"two.env", "ref.env", "brace.env", "unset.env", "dup.env"} |->
        CASE n = "two.env" -> <<"# both keys", "export Q = { P }/q", "P = p">>
          [] n = "ref.env" -> <<"overload Q = { P }", "", "export R = r">>
          [] n = "brace.env" -> <<"export P = 9", "overload Q = {">>
          [] n = "unset.env" -> <<"overload P = 7", "export Q = { U }">>
          [] n = "dup.env" -> <<"export Q = 1", "overload Q = 2">>]

LoadNames == DOMAIN LoadFiles \cup {"missing.env"}

\* the environment at the call: P unset, set, or set to the empty string
LoadEnvs ==
    {<<>>} \cup {[n \in {"P"} |-> v] : v \in {"1", ""}}

InitLoad ==
    \E n \in 0..MaxFiles :
        \E names \in [1..n -> LoadNames] :
            \E env \in LoadEnvs :
                LoadCall(LoadFiles, env, names)

SpecLoad == InitLoad /\ [][NextLoad]_vars

\* the payload of the record was exported or overloaded, and its key was /
\* was not in the environment when Load came to it
Present(r) == r.payload.Key \in DOMAIN r.before

OverloadCase(r) ==
    /\ r.payload.Overload
    /\ Present(r)
    /\ r.before[r.payload.Key] # r.payload.Value

ExportCase(r) == r.payload.Export /\ ~r.payload.Overload /\ Present(r)

\* C1 as stated: after a successful Load the environment holds the value
\* of every overload entry whose key was set to another value, and no
\* export entry without overload changed a key that was set
C1_AsStated ==
    (pc = "done" /\ err = Nil) =>
        \A j \in DOMAIN log :
            /\ OverloadCase(log[j]) =>
                   environ[log[j].payload.Key] = log[j].payload.Value
            /\ ExportCase(log[j]) => log[j].after = log[j].before

\* C1, amended: an overload entry whose key is set to another value sets it
\* to its own value, which is the value of the key from then on and after
\* the Load unless a later file of the call holds an overload entry of the
\* same key; an export entry without overload whose key is set (before the
\* call or by an earlier file) leaves the environment as it is.
C1_DirectivePrecedence ==
    \A j \in DOMAIN log :
        /\ OverloadCase(log[j]) =>
               /\ log[j].after[log[j].payload.Key] = log[j].payload.Value
               /\ (\A k \in (j + 1)..Len(log) :
                       log[k].payload.Key = log[j].payload.Key =>
                           ~log[k].payload.Overload)
                      => environ[log[j].payload.Key] = log[j].payload.Value
        /\ ExportCase(log[j]) => log[j].after = log[j].before

\* witness of C1: a Load ended in which an overload entry replaced the
\* value set at the call, and a later export entry left that value alone
C1_Witness ==
    /\ pc = "done"
    /\ err = Nil
    /\ Len(log) = 2
    /\ OverloadCase(log[1])
    /\ log[1].payload.Key \in DOMAIN env0
    /\ ExportCase(log[2])
    /\ log[2].file = 2
    /\ log[2].payload.Key = log[1].payload.Key
    /\ log[2].payload.Value # log[1].payload.Value
    /\ environ[log[1].payload.Key] = log[1].payload.Value

\* C2: an exported or overloaded entry whose key is not in the environment
\* when Load comes to it puts the key there with its resolved value,
\* whatever that value is
C2_AbsentKeyWritten ==
    \A j \in DOMAIN log :
        ((log[j].payload.Export \/ log[j].payload.Overload)
            /\ ~Present(log[j])) =>
            /\ log[j].payload.Key \in DOMAIN log[j].after
            /\ log[j].after[log[j].payload.Key] = log[j].payload.Value

\* the number of payloads of file f that Load has visited
Visited(f) == Cardinality({j \in DOMAIN log : log[j].file = f})

\* the environment as the writes made so far left it
Written == IF log = <<>> THEN env0 ELSE log[Len(log)].after

\* C6: Load opens the files in the order of the list; while a file is
\* parsed none of its entries has been written; and when Parse fails Load
\* stops: it returns that error, has written no entry of that file, has
\* opened no later file, and the environment holds the writes of the
\* earlier files, all of whose entries it visited.
C6_StopsAtFirstError ==
    /\ Len(opened) <= Len(FileList)
    /\ opened = SubSeq(FileList, 1, Len(opened))
    /\ environ = Written
    /\ \A j \in DOMAIN log : log[j].file <= idx
    /\ pc \in {"open", "tokenize", "substitute", "unescape", "return"} =>
           Visited(idx) = 0
    /\ err # Nil =>
           /\ pc \in {"return", "done"}
           /\ err.file = FileList[idx]
           /\ Len(opened) = idx
           /\ Visited(idx) = 0
           /\ payloads = <<>>
           /\ \A f \in 1..(idx - 1) :
                  Visited(f) =
                      Len(ScanLines(FileList[f], fs[FileList[f]], 1,
                                    <<>>).payloads)

\* witness of C6: the second file of two failed to parse after the first
\* file had written to the environment
C6_Witness ==
    /\ pc = "done"
    /\ err # Nil
    /\ err.msg # ErrOpen
    /\ idx = 2
    /\ Len(opened) = 2
    /\ environ # env0
    /\ Len(ScanLines(Filename, fs[Filename], 1, <<>>).payloads) = 2

-----------------------------------------------------------------------------
(* escape processing: claims C7, C9 (specification SpecEscape) *)

MaxLen == 4

EscapeChars == {"{", "}", "\\", "n", "t", "a"}

RECURSIVE Strings(_)
Strings(n) ==
    IF n = 0 THEN {""}
    ELSE LET shorter == Strings(n - 1)
         IN  shorter \cup {s \o c : s \in shorter, c \in EscapeChars}

\* the values of the README and of the tests
EscapeExamples ==
    {"{{literal}}", "Title:\\n\\t1. value", "Title:\\\\n", "{{ { a } }}"}

EscapeEnv == [n \in {"a"} |-> "}}\\t"]

InitEscape ==
    \E v \in Strings(MaxLen) \cup EscapeExamples :
        ParseCall([n \in {"e.env"} |-> <<"KEY = " \o v>>], EscapeEnv, "e.env")

SpecEscape == InitEscape /\ [][NextParse]_vars

\* every two adjacent characters c of s, taken from the left, made one
RECURSIVE Halved(_, _)
Halved(s, c) ==
    IF Len(s) = 0 THEN ""
    ELSE IF Len(s) >= 2 /\ At(s, 0) = c /\ At(s, 1) = c
    THEN c \o Halved(Slice(s, 2, Len(s)), c)
    ELSE At(s, 0) \o Halved(Slice(s, 1, Len(s)), c)

\* the pairs of a backslash and a character of s, taken from the left
\* without overlap: \n a line feed, \t a tab, \\ one backslash, any other
\* pair itself
RECURSIVE Pairs(_)
Pairs(s) ==
    IF Len(s) = 0 THEN ""
    ELSE IF Len(s) = 1 \/ At(s, 0) # "\\"
    THEN At(s, 0) \o Pairs(Slice(s, 1, Len(s)))
    ELSE (CASE At(s, 1) = "n" -> "\n"
            [] At(s, 1) = "t" -> "\t"
            [] At(s, 1) = "\\" -> "\\"
            [] OTHER -> Slice(s, 0, 2))
         \o Pairs(Slice(s, 2, Len(s)))

Described(s) == Pairs(Halved(Halved(s, "{"), "}"))

\* C7: the escape processor turns each resolved value into the value got
\* by making every {{ a { and then every }} a }, and then replacing, from
\* the left and without overlap, the pairs of a backslash and a character:
\* \n by a line feed, \t by a tab, \\ by one backslash, any other pair by
\* itself; so {{literal}} gives {literal}, Title:\n\t1. value gives the
\* title, a line feed, a tab and "1. value", and \\n gives a backslash and
\* an n.
C7_EscapeProcessor ==
    [][pc = "unescape" =>
        /\ Len(payloads') = Len(payloads)
        /\ \A i \in DOMAIN payloads :
            LET v == payloads[i].Value
                u == payloads'[i].Value
            IN  /\ u = Described(v)
                /\ v = "{{literal}}" => u = "{literal}"
                /\ v = "Title:\\n\\t1. value" => u = "Title:\n\t1. value"
                /\ v = "Title:\\\\n" => u = "Title:\\n"]_vars

\* witness of C7: Parse returned a line feed and a tab for \n and \t
C7_Witness ==
    /\ pc = "done"
    /\ err = Nil
    /\ fs[Filename] = <<"KEY = Title:\\n\\t1. value">>
    /\ payloads[1].Value = "Title:\n\t1. value"

\* the value holds a sequence the escape processor rewrites
HasEscape(u) ==
    \E e \in {"{{", "}}", "\\n", "\\t", "\\\\"} : Contains(u, e)

\* C9 as stated: the escape processor applied again to a value that Parse
\* returned leaves it as it is
C9_Idempotent ==
    (pc = "done" /\ err = Nil) =>
        \A i \in DOMAIN payloads :
            UnescapeValue(payloads[i].Value) = payloads[i].Value

\* C9, amended: the escape processor applied again to a value u that Parse
\* returned leaves it as it is exactly when u holds none of {{, }}, \n, \t
\* and \\ (a backslash and an n, a backslash and a t, two backslashes).
C9_SecondUnescape ==
    (pc = "done" /\ err = Nil) =>
        \A i \in DOMAIN payloads :
            UnescapeValue(payloads[i].Value) = payloads[i].Value
                <=> ~HasEscape(payloads[i].Value)

\* witness of C9: the escape processor changed the value of the file and
\* would not change the value it returned
C9_Witness ==
    /\ pc = "done"
    /\ err = Nil
    /\ fs[Filename] = <<"KEY = {{\\a">>
    /\ payloads[1].Value = "{\\a"
    /\ UnescapeValue(payloads[1].Value) = payloads[1].Value

-----------------------------------------------------------------------------
(* the line loop: claim C8 (specification SpecLines) *)

MaxLines == 2

KeySpecs ==
    {"A", "export A", "overload B", "export overload A", "EXPORT B",
     "Overload  A", "export\tB", "EXPORT_DIR", "OVERLOADED", "exportA",
     "export", "overload export B"}

LineValues == {"1", "{ A }"}

Lines ==
    {k \o " = " \o v : k \in KeySpecs, v \in LineValues}
        \cup {"", "# comment", "novalue", " = 1"}

LinesEnv == [n \in {"A"} |-> "a"]

InitLines ==
    \E n \in 1..MaxLines :
        \E lines \in [1..n -> Lines] :
            ParseCall([f \in {"l.env"} |-> lines], LinesEnv, "l.env")

SpecLines == InitLines /\ [][NextParse]_vars

\* the text before the = of an entry line
KeyText(line) == TrimSpace(SplitN2(TrimSpace(line), "=")[1])

EntryLines(lines) ==
    {l \in DOMAIN lines :
        /\ TrimSpace(lines[l]) # ""
        /\ ~HasPrefix(TrimSpace(lines[l]), "#")
        /\ Contains(lines[l], "=")}

\* C8: a leading export or overload is a directive only when white space
\* separates it from what follows: when the text before the = is one
\* identifier, the line loop gives an entry of that line whose key is the
\* whole identifier and whose flags are unset
C8_DirectiveNeedsSpace ==
    (pc = "tokenize" /\ pass = 0) =>
        \A l \in EntryLines(fs[Filename]) :
            ValidationMatch(KeyText(fs[Filename][l])) =>
                \E i \in DOMAIN payloads :
                    /\ payloads[i].Line = l
                    /\ payloads[i].Key = KeyText(fs[Filename][l])
                    /\ ~payloads[i].Export
                    /\ ~payloads[i].Overload

=============================================================================
